---- MODULE Spec2Model ----
(***************************************************************************)
(* The shared-file instance registry of bot-boss (SharedInstanceManager).  *)
(*                                                                         *)
(* Independent VS Code processes publish one entry each into a JSON file,  *)
(* guarded by an advisory lock marker file.  The model follows the file    *)
(* system calls of the TypeScript source one by one: calls of different    *)
(* processes interleave freely; inside one process the tasks (promises)    *)
(* interleave only at the awaits of the source.                            *)
(*                                                                         *)
(* Time is the value of Date.now() in ms.  Code runs in zero time; time    *)
(* passes only while every live task is idle or asleep in a setTimeout,    *)
(* and never past a pending timer.  A crashed process stops for good.      *)
(***************************************************************************)
EXTENDS Integers, Sequences, FiniteSets, TLC

(* ---------------------------------------------------------------- bounds *)
NumProcs == 2            \* processes (sessions) that may take part
NumTasks == 2            \* promises in flight, over all processes
MaxPeriods == 4          \* the clock stops after this many heartbeat periods
MaxCalls == 3            \* calls of the public API made by the environment
MaxBroken == 2           \* kinds of system calls that fail together
NumCallbacks == 2        \* functions handed to onSharedFileChange

(* ----------------------------------------------------- program constants *)
heartbeatIntervalMs == 5000
staleThresholdMs    == 15000
maxWaitTime         == 5000
checkInterval       == 50
maxRetries          == 5
retryDelay          == 100

Procs == 1..NumProcs
Tasks == 1..NumTasks

\* the instants at which the environment calls the public API
CallTimes == {k * heartbeatIntervalMs : k \in 0..MaxPeriods}
MaxTime == MaxPeriods * heartbeatIntervalMs

\* sessionId of a peer that published before the run and is gone since
DeadSession == 0
\* lock marker values: none, left behind by a process that is gone, or the
\* task whose writeFileSync created it (the file holds that process's pid)
NoLock     == 0
Abandoned  == -1

VARIABLES
    now,                \* Date.now()
    shared,             \* content of vscode-instances.json
    tmp,                \* content of vscode-instances.json.tmp
    lock,               \* vscode-instances.lock
    procOf,             \* the process each task (promise chain) runs in
    task,               \* per task: operation, position, locals
    heartbeatInterval,  \* per process: this.heartbeatInterval is set
    timers,             \* per process: due times of its active setInterval timers
    fileWatcher,        \* per process: this.fileWatcher is set
    watchers,           \* per process: number of its open fs.watch watchers
    crashed,            \* per process: it died
    calls,              \* API calls the environment may still make
    broken,             \* the system calls that fail for the time being
    horizon,            \* the time after which no call is made and no timer fires
    lifecycle,          \* per process: what its calls of the API have come to
    published,          \* per process: Date.now() at its last write of its entry
    changeCallbacks,    \* per process: this.changeCallbacks, in insertion order
    notified,           \* the last run of a listener of fs.watch
    unregistered,       \* per process: the callbacks taken back and not handed again
    statuses,           \* the Copilot statuses handed to severity
    severities          \* what severity returned for them

vars == <<now, shared, tmp, lock, procOf, task, heartbeatInterval, timers,
          fileWatcher, watchers, crashed, calls, broken, horizon, lifecycle,
          published, changeCallbacks, notified, unregistered, statuses, severities>>

(* ------------------------------------------------------------ data model *)
Entry(s, i, t) == [sessionId |-> s, instanceId |-> i, lastUpdated |-> t]

\* the lastUpdated of an entry that has none, and what now - lastUpdated is
\* then: a NaN, for which every comparison is false
NotANumber == -1

\* an instanceId that is a JSON number and no string: the backfill keeps it
\* (it is truthy) and it has no localeCompare; as an argument of
\* localeCompare it compares greater than the ids of the run
NotAString == 100

\* A file: absent, zero bytes, text that is no JSON, JSON that is no array,
\* a JSON array holding null, or a JSON array of entries.
File(k, es) == [kind |-> k, entries |-> es]
AbsentFile  == File("absent", <<>>)
EmptyFile   == File("empty", <<>>)

Min(S) == CHOOSE x \in S : \A y \in S : x <= y

\* Insert e behind every element that does not compare greater (stable).
RECURSIVE InsertSorted(_, _)
InsertSorted(e, s) ==
    IF s = <<>> THEN <<e>>
    ELSE IF e.instanceId < Head(s).instanceId
         THEN <<e>> \o s
         ELSE <<Head(s)>> \o InsertSorted(e, Tail(s))

\* a sort that leaves the list in the order it has
fileOrder(s) == s

\* instances.sort((a, b) => a.instanceId.localeCompare(b.instanceId))
RECURSIVE SortByInstanceId(_)
SortByInstanceId(s) ==
    IF s = <<>> THEN <<>>
    ELSE InsertSorted(s[Len(s)], SortByInstanceId(SubSeq(s, 1, Len(s) - 1)))

\* the comparator a.instanceId.localeCompare(b.instanceId) throws when a has
\* no string for its instanceId; sort calls it with every element but the
\* first as a
sortThrows(s) == \E i \in 2..Len(s) : s[i].instanceId = NotAString

\* generateDeterministicGUID(sessionId): a hash of the session id
generateDeterministicGUID(sid) == 10 + sid

\* a backfill that gives every entry the instanceId made from its sessionId
RehashInstanceId(e) ==
    [e EXCEPT !.instanceId = generateDeterministicGUID(e.sessionId)]

\* the backfill of readSharedFile: an entry without instanceId gets one
BackfillInstanceId(e) ==
    IF e.instanceId = 0
    THEN [e EXCEPT !.instanceId = generateDeterministicGUID(e.sessionId)]
    ELSE e

\* JSON.stringify(instances, null, 2)
Stringify(instances) == File("list", instances)

\* the outcome of a function: it threw, or it returned a list
Returned(l) == [threw |-> FALSE, list |-> l]
Threw       == [threw |-> TRUE, list |-> <<>>]

\* the try block of readSharedFile on the content found at the registry
\* path: existsSync, the trim test, JSON.parse, Array.isArray, the backfill
parseSharedFile(content) ==
    CASE content.kind = "absent"   -> Returned(<<>>)
      [] content.kind = "empty"    -> Returned(<<>>)
      [] content.kind = "garbage"  -> Threw      \* JSON.parse throws
      [] content.kind = "notlist"  -> Returned(<<>>)
      [] content.kind = "nulllist" -> Threw      \* null.instanceId throws
      [] OTHER -> Returned([i \in 1..Len(content.entries) |->
                               BackfillInstanceId(content.entries[i])])

\* what the content is: of the kinds of files, a list is fieldless when an
\* entry of it has no lastUpdated
kindOf(content) ==
    IF /\ content.kind = "list"
       /\ \E i \in 1..Len(content.entries) : content.entries[i].lastUpdated = NotANumber
    THEN "fieldless"
    ELSE content.kind

\* the catch of readSharedFile: log, return []
readCaught(r) == IF r.threw THEN Returned(<<>>) ELSE r

readSharedFile(content) == readCaught(parseSharedFile(content))

\* now - instance.lastUpdated
Age(t, lastUpdated) ==
    IF lastUpdated = NotANumber THEN NotANumber ELSE t - lastUpdated

\* age >= this.staleThresholdMs
isStale(age) == age # NotANumber /\ age >= staleThresholdMs

removeStaleInstances(instances, t) ==
    SelectSeq(instances, LAMBDA e : ~isStale(Age(t, e.lastUpdated)))

\* a filter that lets every entry through
KeepEverySession(instances, sid) == instances

\* allInstances.filter(inst => inst.sessionId !== this.currentSessionId)
WithoutSession(instances, sid) ==
    SelectSeq(instances, LAMBDA e : e.sessionId # sid)

\* an update that pushes the snapshot without the filter before it
pushInstance(allInstances, instanceData, t) ==
    removeStaleInstances(Append(allInstances, instanceData), t)

\* the body of the locked operation of updateSharedFile, up to the sort
cleanInstances(allInstances, instanceData, t) ==
    removeStaleInstances(
        Append(WithoutSession(allInstances, instanceData.sessionId),
               instanceData), t)

\* an update that writes the list as pushed and reaped, without the sort
unsortedInstances(allInstances, instanceData, t) ==
    cleanInstances(allInstances, instanceData, t)

\* the body of the locked operation of updateSharedFile, up to the write
MergedInstances(allInstances, instanceData, t) ==
    SortByInstanceId(cleanInstances(allInstances, instanceData, t))

\* the body of the locked operation of cleanup, up to the write
CleanedInstances(allInstances, sid) ==
    SortByInstanceId(WithoutSession(allInstances, sid))

\* getAllInstances: reap, then sort
LiveInstances(sharedInstances, t) ==
    SortByInstanceId(removeStaleInstances(sharedInstances, t))

(* ----------------------------------------------------------------- tasks *)
\* op: the call the task runs; pc: its position; began: Date.now() at the
\* call (the lastUpdated of the snapshot of an update); attempt, startTime,
\* wake: the locals of updateSharedFile and withFileLock; raw: what
\* readSharedFile returned, from the file content of kind readKind; insts:
\* the list in hand; fd: where the inode of the open temporary file is;
\* err: an exception is on its way up; out: how the call ended; late: the
\* call was made after a call of cleanup; wrote: how its last writeSharedFile ended;
\* before: the registry file when that writeSharedFile was called, kept up
\* to its write; changed: the write put something else in the registry file;
\* rewatched: the catch of the heartbeat callback started a watcher;
\* lockedAt: Date.now() when the call created its marker, up to its release
IdleTask == [op |-> "none", pc |-> "idle", began |-> 0, attempt |-> 0,
             startTime |-> 0, wake |-> 0, raw |-> <<>>, readKind |-> "none",
             insts |-> <<>>, fd |-> "none", err |-> FALSE, out |-> "none",
             late |-> FALSE, wrote |-> "none", before |-> AbsentFile,
             changed |-> FALSE, rewatched |-> FALSE, lockedAt |-> 0]

\* positions reached in the middle of a run between two awaits: the other
\* tasks of the same process cannot run there
MidSync == {"lockForce", "lockCreate", "opRead", "tmpWrite", "rename"}

Sleeping == {"lockWait", "retrySleep"}

Live(t) == ~crashed[procOf[t]]

\* task t may take a step: its process is alive and no sibling is in the
\* middle of a synchronous run
CanRun(t) ==
    /\ Live(t)
    /\ \A u \in Tasks \ {t} : procOf[u] = procOf[t] => task[u].pc \notin MidSync

FreeTasks(p) == {t \in Tasks : procOf[t] = p /\ task[t].pc = "idle"}

SetTask(t, r) == task' = [task EXCEPT ![t] = r]


\* this.currentSessionId / this.currentInstanceId of process p: the GUIDs are
\* random, here they order the processes against their session ids
currentSessionId(p)  == p
currentInstanceId(p) == NumProcs + 1 - p

\* getCurrentInstanceData at time t
getCurrentInstanceData(p, t) == Entry(currentSessionId(p), currentInstanceId(p), t)

\* ways to place the tasks on processes: task 1 runs in process 1, the next
\* task runs in the same process or in the next one
Layouts ==
    {f \in [Tasks -> Procs] :
        /\ f[1] = 1
        /\ \A i \in Tasks \ {1} : f[i] \in {f[i - 1], f[i - 1] + 1}}

\* registry files the run may start from: none, one with an entry of a
\* process that is gone, written before entries had an instanceId, one with
\* an entry that has no lastUpdated, and one with an entry whose instanceId
\* is a number
LegacyEntry == Entry(DeadSession, 0, 0)
ForeignEntry == Entry(DeadSession, 0, NotANumber)
NumberedEntry == Entry(DeadSession, NotAString, 0)
InitFiles ==
    {AbsentFile, Stringify(<<LegacyEntry>>), Stringify(<<ForeignEntry>>),
     Stringify(<<NumberedEntry>>)}

\* the time of the last write of a process that never wrote its entry
NotPublished == -1

\* no listener of fs.watch has run
NotNotified == [proc |-> 0, filename |-> "none", called |-> <<>>]

\* the state after the constructor ran in every process, given the files
\* found on disk and the number of API calls to come
InitRegistry(files, locks, n, f, h) ==
    /\ now = 0
    /\ shared \in files
    /\ tmp = AbsentFile
    /\ lock \in locks
    /\ procOf \in Layouts
    /\ task = [t \in Tasks |-> IdleTask]
    /\ heartbeatInterval = [p \in Procs |-> FALSE]
    /\ timers = [p \in Procs |-> <<>>]
    /\ fileWatcher = [p \in Procs |-> FALSE]
    /\ watchers = [p \in Procs |-> 0]
    /\ crashed = [p \in Procs |-> FALSE]
    /\ calls = n
    /\ broken \in f
    /\ horizon = h
    /\ lifecycle = [p \in Procs |-> "Unregistered"]
    /\ published = [p \in Procs |-> NotPublished]
    /\ changeCallbacks = [p \in Procs |-> <<>>]
    /\ notified = NotNotified
    /\ unregistered = [p \in Procs |-> {}]

\* ... and no status is there to be graded
InitWith(files, locks, n, f, h) ==
    /\ InitRegistry(files, locks, n, f, h)
    /\ statuses = <<>>
    /\ severities = <<>>

Init == InitWith(InitFiles, {NoLock, Abandoned}, MaxCalls, {{}}, MaxTime)

\* no marker is left behind by anyone
InitFresh == InitWith(InitFiles, {NoLock}, MaxCalls, {{}}, MaxTime)

\* the registry file holds something else than a list of entries; the last
\* kind is a JSON array of objects that lack fields of an entry
BadKinds == {"absent", "empty", "garbage", "notlist", "nulllist", "fieldless"}
BadFiles ==
    {File(k, <<>>) : k \in BadKinds \ {"fieldless"}} \cup {Stringify(<<ForeignEntry>>)}
InitBadFile == InitWith(BadFiles, {NoLock}, MaxCalls, {{}}, MaxTime)

\* the system calls that can fail: writeFileSync of the marker, unlinkSync
\* of the marker, readFileSync of the registry file, the open and the write
\* of writeFileSync of the temporary file, renameSync, fs.watch
SysCalls == {"lockCreate", "unlink", "read", "tmpOpen", "tmpWrite", "rename", "watch"}

\* some kinds of system calls fail until the cause is repaired
InitFaulty ==
    InitWith({AbsentFile}, {NoLock}, MaxCalls - 1,
             {b \in SUBSET SysCalls : Cardinality(b) <= MaxBroken},
             heartbeatIntervalMs)

Works(k) == k \notin broken
Fails(k) == k \in broken

\* readFileSync is not called on a missing file (existsSync), else it works
Readable == shared.kind = "absent" \/ Works("read")

(* ------------------------------------------------------------ withFileLock *)
\* the first pass of the wait loop: startTime = Date.now(), existsSync(lock)
lockBegin(r) ==
    [r EXCEPT !.startTime = now,
              !.pc = IF lock = NoLock THEN "lockCreate" ELSE "lockWait",
              !.wake = IF lock = NoLock THEN 0 ELSE now + checkInterval]

\* a ceiling that is one poll late
waitedOnePollMore(r) == now - r.startTime > maxWaitTime + checkInterval

\* Date.now() - startTime > maxWaitTime
waitedTooLong(r) == now - r.startTime > maxWaitTime

\* a later pass of the wait loop, after the 50 ms sleep
lockPoll(r) ==
    IF lock = NoLock THEN [r EXCEPT !.pc = "lockCreate", !.wake = 0]
    ELSE IF waitedTooLong(r) THEN [r EXCEPT !.pc = "lockForce", !.wake = 0]
    ELSE [r EXCEPT !.wake = now + checkInterval]

LockBegin(t) ==
    /\ task[t].pc = "lockBegin" /\ CanRun(t)
    /\ SetTask(t, lockBegin(task[t]))
    /\ UNCHANGED <<now, shared, tmp, lock, procOf, heartbeatInterval, timers, fileWatcher, watchers, crashed, calls, broken, horizon, lifecycle, published, changeCallbacks, notified, unregistered, statuses, severities>>

LockPoll(t) ==
    /\ task[t].pc = "lockWait" /\ CanRun(t)
    /\ now >= task[t].wake
    /\ SetTask(t, lockPoll(task[t]))
    /\ UNCHANGED <<now, shared, tmp, lock, procOf, heartbeatInterval, timers, fileWatcher, watchers, crashed, calls, broken, horizon, lifecycle, published, changeCallbacks, notified, unregistered, statuses, severities>>

\* fs.unlinkSync(lockFilePath) of the forced takeover
LockForce(t) ==
    /\ task[t].pc = "lockForce" /\ CanRun(t) /\ Works("unlink")
    /\ lock' = NoLock
    /\ SetTask(t, [task[t] EXCEPT !.pc = "lockCreate"])
    /\ UNCHANGED <<now, shared, tmp, procOf, heartbeatInterval, timers, fileWatcher, watchers, crashed, calls, broken, horizon, lifecycle, published, changeCallbacks, notified, unregistered, statuses, severities>>

\* fs.writeFileSync(lockFilePath, pid)
LockCreate(t) ==
    /\ task[t].pc = "lockCreate" /\ CanRun(t) /\ Works("lockCreate")
    /\ lock' = t
    /\ SetTask(t, [task[t] EXCEPT !.pc = "opRead", !.lockedAt = now])
    /\ UNCHANGED <<now, shared, tmp, procOf, heartbeatInterval, timers, fileWatcher, watchers, crashed, calls, broken, horizon, lifecycle, published, changeCallbacks, notified, unregistered, statuses, severities>>

\* a release that leaves the marker where it is
keepLock(l) == l

\* the finally block: fs.unlinkSync(lockFilePath), errors ignored
releaseLock(l) == NoLock

Unlock(t) ==
    /\ task[t].pc = "unlock" /\ CanRun(t) /\ Works("unlink")
    /\ lock' = releaseLock(lock)
    /\ SetTask(t, [task[t] EXCEPT !.pc = "afterLock", !.lockedAt = 0])
    /\ UNCHANGED <<now, shared, tmp, procOf, heartbeatInterval, timers, fileWatcher, watchers, crashed, calls, broken, horizon, lifecycle, published, changeCallbacks, notified, unregistered, statuses, severities>>

(* --------------------------------------------------------- writeSharedFile *)
\* the times of the last publish once content is in the place of the
\* registry file: an entry of a process that the file did not hold before
\* has been published now
publishedBy(content) ==
    [p \in Procs |->
        IF \E i \in 1..Len(content.entries) :
              /\ content.entries[i].sessionId = currentSessionId(p)
              /\ \A j \in 1..Len(shared.entries) :
                     shared.entries[j] # content.entries[i]
        THEN now
        ELSE published[p]]

\* fs.writeFileSync(tempFilePath, ...) opens the temporary file with O_TRUNC:
\* an existing file keeps its inode and loses its content
openTmp(r, content) ==
    [r EXCEPT !.insts = content, !.fd = "tmp", !.pc = "tmpWrite",
              !.wrote = "none", !.before = shared, !.changed = FALSE]

\* ... and then writes the serialization through the descriptor, wherever
\* the inode has been moved meanwhile
TmpWrite(t) ==
    /\ task[t].pc = "tmpWrite" /\ CanRun(t) /\ Works("tmpWrite")
    /\ tmp' = IF task[t].fd = "tmp" THEN Stringify(task[t].insts) ELSE tmp
    /\ shared' = IF task[t].fd = "shared" THEN Stringify(task[t].insts) ELSE shared
    /\ published' = IF task[t].fd = "shared"
                    THEN publishedBy(Stringify(task[t].insts))
                    ELSE published
    /\ SetTask(t, [task[t] EXCEPT !.changed = /\ task[t].fd = "shared"
                                              /\ Stringify(task[t].insts) # task[t].before,
                                  !.before = AbsentFile,
                                  !.fd = "none", !.pc = "rename"])
    /\ UNCHANGED <<now, lock, procOf, heartbeatInterval, timers, fileWatcher, watchers, crashed, calls, broken, horizon, lifecycle, changeCallbacks, notified, unregistered, statuses, severities>>

\* where the inode behind a descriptor is after rename(tmp, shared)
fdAfterRename(fd) ==
    CASE fd = "tmp" -> "shared"
      [] fd = "shared" -> "orphan"
      [] OTHER -> fd

afterWrite(r) ==
    IF r.op = "get" THEN [r EXCEPT !.pc = "done", !.out = "returned"]
    ELSE [r EXCEPT !.pc = "unlock"]

\* writeSharedFile returns from its try block
written(r) == afterWrite([r EXCEPT !.wrote = "ok"])

\* the catch of writeSharedFile: log, return
writeCaught(r) ==
    afterWrite([r EXCEPT !.fd = "none", !.wrote = "failed", !.before = AbsentFile])

\* fs.renameSync(tempFilePath, sharedFilePath); when another rename has
\* taken the temporary file away it throws ENOENT, which is caught
Rename(t) ==
    /\ task[t].pc = "rename" /\ CanRun(t) /\ Works("rename")
    /\ IF tmp.kind = "absent"
       THEN /\ SetTask(t, writeCaught(task[t]))
            /\ UNCHANGED <<shared, tmp, published>>
       ELSE /\ shared' = tmp
            /\ tmp' = AbsentFile
            /\ published' = publishedBy(tmp)
            /\ task' = [u \in Tasks |->
                          IF u = t THEN written(task[t])
                          ELSE [task[u] EXCEPT !.fd = fdAfterRename(@)]]
    /\ UNCHANGED <<now, lock, procOf, heartbeatInterval, timers, fileWatcher, watchers, crashed, calls, broken, horizon, lifecycle, changeCallbacks, notified, unregistered, statuses, severities>>

(* ----------------------------------------- updateSharedFile and cleanup *)
\* await this.readSharedFile() inside the locked operation
OpRead(t) ==
    /\ task[t].pc = "opRead" /\ CanRun(t) /\ Readable
    /\ LET r == readSharedFile(shared) IN
       SetTask(t, IF r.threw
                  THEN [task[t] EXCEPT !.readKind = kindOf(shared), !.err = TRUE,
                                       !.pc = "unlock"]
                  ELSE [task[t] EXCEPT !.raw = r.list, !.insts = r.list,
                                       !.readKind = kindOf(shared),
                                       !.pc = "opWrite"])
    /\ UNCHANGED <<now, shared, tmp, lock, procOf, heartbeatInterval, timers, fileWatcher, watchers, crashed, calls, broken, horizon, lifecycle, published, changeCallbacks, notified, unregistered, statuses, severities>>

\* what the locked operation writes
\* the list the locked operation of task t hands to sort
toSort(t) ==
    IF task[t].op = "cleanup"
    THEN WithoutSession(task[t].insts, currentSessionId(procOf[t]))
    ELSE cleanInstances(task[t].insts,
                        getCurrentInstanceData(procOf[t], task[t].began), now)

toWrite(t) ==
    IF task[t].op = "cleanup"
    THEN CleanedInstances(task[t].insts, currentSessionId(procOf[t]))
    ELSE MergedInstances(task[t].insts,
                         getCurrentInstanceData(procOf[t], task[t].began), now)

\* filter, push, reap, sort, then writeSharedFile up to the open of the
\* temporary file; when the comparator throws, the operation throws
OpWrite(t) ==
    /\ task[t].pc = "opWrite" /\ CanRun(t)
    /\ IF sortThrows(toSort(t))
       THEN /\ SetTask(t, [task[t] EXCEPT !.err = TRUE, !.pc = "unlock"])
            /\ UNCHANGED tmp
       ELSE /\ Works("tmpOpen")
            /\ tmp' = EmptyFile
            /\ SetTask(t, openTmp(task[t], toWrite(t)))
    /\ UNCHANGED <<now, shared, lock, procOf, heartbeatInterval, timers, fileWatcher, watchers, crashed, calls, broken, horizon, lifecycle, published, changeCallbacks, notified, unregistered, statuses, severities>>

(* --------------------------------------------------------------- timers *)
\* clearInterval(this.heartbeatInterval): the handle is the timer made last
clearHeartbeat(tm, hb) == IF hb THEN SubSeq(tm, 1, Len(tm) - 1) ELSE tm

\* a startHeartbeat that sets the interval and clears nothing
addHeartbeat(tm, hb) == Append(tm, now + heartbeatIntervalMs)

\* startHeartbeat: clear the timer held, then setInterval
startHeartbeat(tm, hb) == Append(clearHeartbeat(tm, hb), now + heartbeatIntervalMs)

\* a startFileWatcher that opens nothing
noWatcher(n) == n

\* startFileWatcher: this.fileWatcher = fs.watch(...), the watcher held
\* before is not closed
startFileWatcher(n) == n + 1

\* this.fileWatcher.close() of cleanup
closeFileWatcher(n, fw) == IF fw THEN n - 1 ELSE n

\* the timers that fire now; no timer fires after the horizon
DueTimers(p) ==
    {i \in 1..Len(timers[p]) : timers[p][i] <= now /\ timers[p][i] <= horizon}

(* ------------------------------------------------------- the public API *)
\* cleanup() has been called in process p
CleanupCalled(p) == lifecycle[p] \in {"CleaningUp", "CleanedUp", "CleanupFailed"}

\* what the return of a call makes of the process: registered when
\* registerCurrentInstance has started the heartbeat, cleaned up when cleanup
\* has written the record without the entry, and a failed cleanup when its
\* writeSharedFile caught an error
settled(r, was) ==
    CASE r.op = "register" -> "Registered"
      [] r.op = "cleanup"  -> IF r.wrote = "failed" THEN "CleanupFailed"
                              ELSE "CleanedUp"
      [] OTHER             -> was

\* registerCurrentInstance: getCurrentInstanceData, then updateSharedFile
Register(p) ==
    /\ calls > 0 /\ now \in CallTimes /\ now <= horizon
    /\ \E t \in FreeTasks(p) :
        /\ CanRun(t)
        /\ SetTask(t, [IdleTask EXCEPT !.op = "register", !.began = now,
                                       !.pc = "lockBegin",
                                       !.late = CleanupCalled(p)])
    /\ calls' = calls - 1
    /\ UNCHANGED <<now, shared, tmp, lock, procOf, heartbeatInterval, timers, fileWatcher, watchers, crashed, broken, horizon, lifecycle, published, changeCallbacks, notified, unregistered, statuses, severities>>

\* the setInterval callback of startHeartbeat
HeartbeatTick(p) ==
    /\ \E i \in DueTimers(p), t \in FreeTasks(p) :
        /\ CanRun(t)
        /\ timers' = [timers EXCEPT ![p][i] = now + heartbeatIntervalMs]
        /\ SetTask(t, [IdleTask EXCEPT !.op = "heartbeat", !.began = now,
                                       !.pc = "lockBegin"])
    /\ UNCHANGED <<now, shared, tmp, lock, procOf, heartbeatInterval, fileWatcher, watchers, crashed, calls, broken, horizon, lifecycle, published, changeCallbacks, notified, unregistered, statuses, severities>>

\* a try block that goes on to its next statement whatever the await threw
returnedOrThrew(r) == TRUE

\* the await of updateSharedFile or withFileLock returned: the statements
\* after it in the try block run
returned(r) == ~r.err

\* updateSharedFile returned: registerCurrentInstance starts the heartbeat,
\* a heartbeat tick and cleanup are finished
AfterLock(t) ==
    /\ task[t].pc = "afterLock" /\ CanRun(t)
    /\ returned(task[t])
    /\ task[t].op = "register" => Works("watch")
    /\ LET p == procOf[t] IN
       IF task[t].op = "register"
       THEN /\ timers' = [timers EXCEPT ![p] = startHeartbeat(timers[p], heartbeatInterval[p])]
            /\ heartbeatInterval' = [heartbeatInterval EXCEPT ![p] = TRUE]
            /\ watchers' = [watchers EXCEPT ![p] = startFileWatcher(watchers[p])]
            /\ fileWatcher' = [fileWatcher EXCEPT ![p] = TRUE]
       ELSE UNCHANGED <<timers, heartbeatInterval, watchers, fileWatcher>>
    /\ lifecycle' = [lifecycle EXCEPT
                        ![procOf[t]] = settled(task[t], lifecycle[procOf[t]])]
    /\ SetTask(t, [task[t] EXCEPT !.pc = "done", !.out = "ok"])
    /\ UNCHANGED <<now, shared, tmp, lock, procOf, crashed, calls, broken, horizon, published, changeCallbacks, notified, unregistered, statuses, severities>>

\* a wait that does not grow
flatBackoff(attempt) == retryDelay

\* retryDelay * (attempt + 1)
backoff(attempt) == retryDelay * (attempt + 1)

\* the catch of updateSharedFile before the last attempt: sleep, then the
\* next round of the for loop
Retry(t) ==
    /\ task[t].pc = "afterLock" /\ CanRun(t)
    /\ task[t].err
    /\ task[t].op \in {"register", "heartbeat"}
    /\ task[t].attempt # maxRetries - 1
    /\ SetTask(t, [task[t] EXCEPT !.err = FALSE, !.pc = "retrySleep",
                                  !.wake = now + backoff(task[t].attempt),
                                  !.attempt = @ + 1])
    /\ UNCHANGED <<now, shared, tmp, lock, procOf, heartbeatInterval, timers, fileWatcher, watchers, crashed, calls, broken, horizon, lifecycle, published, changeCallbacks, notified, unregistered, statuses, severities>>

\* the sleep is over: withFileLock again
RetryWake(t) ==
    /\ task[t].pc = "retrySleep" /\ CanRun(t)
    /\ now >= task[t].wake
    /\ SetTask(t, lockBegin(task[t]))
    /\ UNCHANGED <<now, shared, tmp, lock, procOf, heartbeatInterval, timers, fileWatcher, watchers, crashed, calls, broken, horizon, lifecycle, published, changeCallbacks, notified, unregistered, statuses, severities>>

\* an exception that leaves the try block of a public method
rethrown(op) == "threw"

\* the catch of registerCurrentInstance, of the heartbeat callback and of
\* cleanup: log; the promise is fulfilled
caught(op) == "failed"

\* the error reaches the caller of updateSharedFile (after the last attempt)
\* or of withFileLock (cleanup): its catch logs it; the heartbeat callback
\* restarts the watcher when none is held
GiveUp(t) ==
    /\ task[t].pc = "afterLock" /\ CanRun(t)
    /\ task[t].err
    /\ task[t].op = "cleanup" \/ task[t].attempt = maxRetries - 1
    /\ LET p == procOf[t] IN
       IF task[t].op = "heartbeat" /\ ~fileWatcher[p] /\ Works("watch")
       THEN /\ watchers' = [watchers EXCEPT ![p] = startFileWatcher(watchers[p])]
            /\ fileWatcher' = [fileWatcher EXCEPT ![p] = TRUE]
       ELSE UNCHANGED <<watchers, fileWatcher>>
    /\ lifecycle' = IF task[t].op = "cleanup"
                    THEN [lifecycle EXCEPT ![procOf[t]] = "CleanupFailed"]
                    ELSE lifecycle
    /\ SetTask(t, [task[t] EXCEPT !.err = FALSE, !.pc = "done",
                                  !.out = caught(task[t].op),
                                  !.rewatched = fileWatcher'[procOf[t]]
                                                  # fileWatcher[procOf[t]]])
    /\ UNCHANGED <<now, shared, tmp, lock, procOf, heartbeatInterval, timers, crashed, calls, broken, horizon, published, changeCallbacks, notified, unregistered, statuses, severities>>

\* getAllInstances
Get(p) ==
    /\ calls > 0 /\ now \in CallTimes /\ now <= horizon
    /\ \E t \in FreeTasks(p) :
        /\ CanRun(t)
        /\ SetTask(t, [IdleTask EXCEPT !.op = "get", !.began = now, !.pc = "getRead"])
    /\ calls' = calls - 1
    /\ UNCHANGED <<now, shared, tmp, lock, procOf, heartbeatInterval, timers, fileWatcher, watchers, crashed, broken, horizon, lifecycle, published, changeCallbacks, notified, unregistered, statuses, severities>>

\* the catch of getAllInstances: log, return []
getFailed(r) == [r EXCEPT !.insts = <<>>, !.pc = "done", !.out = "returned"]

GetRead(t) ==
    /\ task[t].pc = "getRead" /\ CanRun(t) /\ Readable
    /\ LET r == readSharedFile(shared) IN
       SetTask(t, IF r.threw
                  THEN getFailed([task[t] EXCEPT !.readKind = kindOf(shared)])
                  ELSE [task[t] EXCEPT !.raw = r.list, !.insts = r.list,
                                       !.readKind = kindOf(shared),
                                       !.pc = "getPrune"])
    /\ UNCHANGED <<now, shared, tmp, lock, procOf, heartbeatInterval, timers, fileWatcher, watchers, crashed, calls, broken, horizon, lifecycle, published, changeCallbacks, notified, unregistered, statuses, severities>>

\* cleanInstances.length !== sharedInstances.length
shrank(clean, all) == Len(clean) # Len(all)

\* reap and sort; when the list shrank, writeSharedFile without the lock
GetPrune(t) ==
    /\ task[t].pc = "getPrune" /\ CanRun(t)
    /\ LET clean == LiveInstances(task[t].insts, now) IN
       IF sortThrows(removeStaleInstances(task[t].insts, now))
       THEN /\ SetTask(t, getFailed(task[t]))
            /\ UNCHANGED tmp
       ELSE IF shrank(clean, task[t].insts)
       THEN /\ Works("tmpOpen")
            /\ tmp' = EmptyFile
            /\ SetTask(t, openTmp(task[t], clean))
       ELSE /\ SetTask(t, [task[t] EXCEPT !.insts = clean, !.pc = "done",
                                          !.out = "returned"])
            /\ UNCHANGED tmp
    /\ UNCHANGED <<now, shared, lock, procOf, heartbeatInterval, timers, fileWatcher, watchers, crashed, calls, broken, horizon, lifecycle, published, changeCallbacks, notified, unregistered, statuses, severities>>

\* cleanup: stop the heartbeat, close the watcher held, clear the callbacks,
\* then withFileLock up to its first await
Cleanup(p) ==
    /\ calls > 0 /\ now \in CallTimes /\ now <= horizon
    /\ \E t \in FreeTasks(p) :
        /\ CanRun(t)
        /\ SetTask(t, lockBegin([IdleTask EXCEPT !.op = "cleanup", !.began = now,
                                                !.late = CleanupCalled(p)]))
    /\ timers' = [timers EXCEPT ![p] = clearHeartbeat(timers[p], heartbeatInterval[p])]
    /\ heartbeatInterval' = [heartbeatInterval EXCEPT ![p] = FALSE]
    /\ watchers' = [watchers EXCEPT ![p] = closeFileWatcher(watchers[p], fileWatcher[p])]
    /\ fileWatcher' = [fileWatcher EXCEPT ![p] = FALSE]
    /\ calls' = calls - 1
    /\ changeCallbacks' = [changeCallbacks EXCEPT ![p] = <<>>]
    /\ lifecycle' = [lifecycle EXCEPT ![p] = "CleaningUp"]
    /\ UNCHANGED <<now, shared, tmp, lock, procOf, crashed, broken, horizon, published, notified, unregistered, statuses, severities>>

\* the promise of the call is settled; the task slot is free again
Done(t) ==
    /\ task[t].pc = "done" /\ CanRun(t)
    /\ SetTask(t, IdleTask)
    /\ UNCHANGED <<now, shared, tmp, lock, procOf, heartbeatInterval, timers, fileWatcher, watchers, crashed, calls, broken, horizon, lifecycle, published, changeCallbacks, notified, unregistered, statuses, severities>>

(* -------------------------------------------------------- change watcher *)
\* the functions that the callers hand to onSharedFileChange; the first one
\* throws when it is called, the others return
Callbacks == 1..NumCallbacks
throws(c) == c = 1

\* path.basename(this.sharedFilePath), and the files that come and go in
\* the directory watched
sharedFileName == "vscode-instances.json"
FileNames ==
    {"vscode-instances.json", "vscode-instances.json.tmp", "vscode-instances.lock"}

\* this.changeCallbacks.add(callback): a Set keeps the order of insertion
addCallback(cbs, c) ==
    IF \E i \in 1..Len(cbs) : cbs[i] = c THEN cbs ELSE Append(cbs, c)

\* this.changeCallbacks.delete(callback)
deleteCallback(cbs, c) == SelectSeq(cbs, LAMBDA x : x # c)

\* a forEach whose body has no try: the first exception ends it
callUntilThrow(cbs) ==
    LET thrown == {i \in 1..Len(cbs) : throws(cbs[i])} IN
    IF thrown = {} THEN cbs ELSE SubSeq(cbs, 1, Min(thrown))

\* this.changeCallbacks.forEach(callback => { try { callback() } catch {} }):
\* the callbacks that are called, in their order
callEvery(cbs) == [i \in 1..Len(cbs) |-> cbs[i]]

\* the listener handed to fs.watch, run for an event with this filename
listener(cbs, filename) ==
    IF filename = sharedFileName THEN callEvery(cbs) ELSE <<>>

\* synchronous code of process p can run: none of its tasks is in the middle
\* of a run
Between(p) ==
    ~crashed[p] /\ \A t \in Tasks : procOf[t] = p => task[t].pc \notin MidSync

\* onSharedFileChange(callback)
OnChange(p, c) ==
    /\ calls > 0 /\ now \in CallTimes /\ now <= horizon
    /\ Between(p)
    /\ changeCallbacks' = [changeCallbacks EXCEPT ![p] = addCallback(@, c)]
    /\ unregistered' = [unregistered EXCEPT ![p] = @ \ {c}]
    /\ calls' = calls - 1
    /\ UNCHANGED <<now, shared, tmp, lock, procOf, task, heartbeatInterval, timers, fileWatcher, watchers, crashed, broken, horizon, lifecycle, published, notified, statuses, severities>>

\* offSharedFileChange(callback)
OffChange(p, c) ==
    /\ calls > 0 /\ now \in CallTimes /\ now <= horizon
    /\ Between(p)
    /\ changeCallbacks' = [changeCallbacks EXCEPT ![p] = deleteCallback(@, c)]
    /\ unregistered' = [unregistered EXCEPT ![p] = @ \cup {c}]
    /\ calls' = calls - 1
    /\ UNCHANGED <<now, shared, tmp, lock, procOf, task, heartbeatInterval, timers, fileWatcher, watchers, crashed, broken, horizon, lifecycle, published, notified, statuses, severities>>

\* the listeners of n watchers run one after the other for the same event
RECURSIVE listeners(_, _, _)
listeners(n, cbs, filename) ==
    IF n = 0 THEN <<>>
    ELSE listener(cbs, filename) \o listeners(n - 1, cbs, filename)

\* an event of the directory reaches the watchers that process p has open:
\* each of them runs the listener it was created with
WatchEvent(p, filename) ==
    /\ Between(p)
    /\ watchers[p] > 0
    /\ notified' = [proc |-> p, filename |-> filename,
                    called |-> listeners(watchers[p], changeCallbacks[p], filename)]
    /\ UNCHANGED <<now, shared, tmp, lock, procOf, task, heartbeatInterval, timers, fileWatcher, watchers, crashed, calls, broken, horizon, lifecycle, published, changeCallbacks, unregistered, statuses, severities>>

(* ------------------------------------------------------ Copilot statuses *)
\* the values of CopilotInfo.status, and a string that is none of them
Statuses ==
    {"Initializing", "Idle", "Generating", "Waiting for Approval",
     "SigninRequired", "Unauthorized", "RateLimited", "Failed", "Error",
     "Disabled", "Done", "Running", "Unknown", "Paused"}

\* a grading that puts Initializing with the statuses that wait for the user
severityCoarse(status) ==
    CASE status \in {"Failed", "Error"} -> 5
      [] status \in {"Unauthorized", "SigninRequired", "RateLimited",
                     "Waiting for Approval", "Initializing"} -> 4
      [] status = "Generating" -> 2
      [] status = "Disabled" -> 1
      [] OTHER -> 0

\* CopilotStatusService.severity
severity(status) ==
    CASE status \in {"Failed", "Error"} -> 5
      [] status \in {"Unauthorized", "SigninRequired", "RateLimited",
                     "Waiting for Approval"} -> 4
      [] status = "Initializing" -> 3
      [] status = "Generating" -> 2
      [] status = "Disabled" -> 1
      [] status \in {"Done", "Idle", "Running"} -> 0
      [] OTHER -> 0

\* severity is called on each of the statuses
Grade ==
    /\ statuses # <<>> /\ severities = <<>>
    /\ severities' = [i \in 1..Len(statuses) |-> severity(statuses[i])]
    /\ UNCHANGED <<now, shared, tmp, lock, procOf, task, heartbeatInterval, timers, fileWatcher, watchers, crashed, calls, broken, horizon, lifecycle, published, changeCallbacks, notified, unregistered, statuses>>

(* ---------------------------------------------------------- environment *)
\* a task with a step to take now
Urgent(t) ==
    /\ Live(t)
    /\ \/ task[t].pc \notin Sleeping \cup {"idle"}
       \/ task[t].pc \in Sleeping /\ task[t].wake <= now

\* a timer that fires now
TimerReady(p) == ~crashed[p] /\ DueTimers(p) # {} /\ FreeTasks(p) # {}

\* the instants the clock may stop at next: a sleeping task wakes, a timer
\* fires or a call is made; the environment and the timers stop at the horizon
Deadlines ==
    {task[t].wake : t \in {u \in Tasks : Live(u) /\ task[u].pc \in Sleeping}}
    \cup {d \in CallTimes \cup UNION {{timers[p][i] : i \in 1..Len(timers[p])} :
                                        p \in {q \in Procs : ~crashed[q]}} :
             d <= horizon}

\* time passes up to the next timer or the next instant of a call
Tick ==
    /\ \A t \in Tasks : ~Urgent(t)
    /\ \A p \in Procs : ~TimerReady(p)
    /\ \E d \in Deadlines : d > now
    /\ now' = Min({d \in Deadlines : d > now})
    /\ UNCHANGED <<shared, tmp, lock, procOf, task, heartbeatInterval, timers, fileWatcher, watchers, crashed, calls, broken, horizon, lifecycle, published, changeCallbacks, notified, unregistered, statuses, severities>>

(* ------------------------------------------------- failing system calls *)
\* fs.writeFileSync(lockFilePath, ...) throws: the finally block runs at
\* once, its unlinkSync removes the marker found or fails and is ignored, and
\* the error leaves withFileLock
LockCreateFail(t) ==
    /\ task[t].pc = "lockCreate" /\ CanRun(t) /\ Fails("lockCreate")
    /\ lock' = IF Works("unlink") THEN releaseLock(lock) ELSE lock
    /\ SetTask(t, [task[t] EXCEPT !.err = TRUE, !.pc = "afterLock"])
    /\ UNCHANGED <<now, shared, tmp, procOf, heartbeatInterval, timers, fileWatcher, watchers, crashed, calls, broken, horizon, lifecycle, published, changeCallbacks, notified, unregistered, statuses, severities>>

\* fs.unlinkSync(lockFilePath) throws, in the forced takeover or in the
\* finally block: the error is ignored and the marker stays
UnlinkFail(t) ==
    /\ task[t].pc \in {"lockForce", "unlock"} /\ CanRun(t) /\ Fails("unlink")
    /\ SetTask(t, [task[t] EXCEPT
                      !.pc = IF @ = "lockForce" THEN "lockCreate" ELSE "afterLock"])
    /\ UNCHANGED <<now, shared, tmp, lock, procOf, heartbeatInterval, timers, fileWatcher, watchers, crashed, calls, broken, horizon, lifecycle, published, changeCallbacks, notified, unregistered, statuses, severities>>

\* fs.readFileSync(sharedFilePath) throws: readSharedFile catches it
ReadFail(t) ==
    /\ task[t].pc \in {"opRead", "getRead"} /\ CanRun(t) /\ ~Readable
    /\ LET r == readCaught(Threw)
           q == [task[t] EXCEPT !.readKind = "unreadable"] IN
       SetTask(t, IF r.threw
                  THEN IF task[t].op = "get" THEN getFailed(q)
                       ELSE [q EXCEPT !.err = TRUE, !.pc = "unlock"]
                  ELSE [q EXCEPT !.raw = r.list, !.insts = r.list,
                                 !.pc = IF @ = "getRead" THEN "getPrune" ELSE "opWrite"])
    /\ UNCHANGED <<now, shared, tmp, lock, procOf, heartbeatInterval, timers, fileWatcher, watchers, crashed, calls, broken, horizon, lifecycle, published, changeCallbacks, notified, unregistered, statuses, severities>>

\* fs.writeFileSync(tempFilePath, ...) throws at the open: nothing changed
TmpOpenFail(t) ==
    /\ CanRun(t) /\ Fails("tmpOpen")
    /\ \/ /\ task[t].pc = "opWrite"
          /\ ~sortThrows(toSort(t))
          /\ SetTask(t, writeCaught([task[t] EXCEPT !.insts = toWrite(t),
                                                  !.changed = FALSE]))
       \/ /\ task[t].pc = "getPrune"
          /\ ~sortThrows(removeStaleInstances(task[t].insts, now))
          /\ shrank(LiveInstances(task[t].insts, now), task[t].insts)
          /\ SetTask(t, writeCaught([task[t] EXCEPT
                                        !.insts = LiveInstances(task[t].insts, now),
                                        !.changed = FALSE]))
    /\ UNCHANGED <<now, shared, tmp, lock, procOf, heartbeatInterval, timers, fileWatcher, watchers, crashed, calls, broken, horizon, lifecycle, published, changeCallbacks, notified, unregistered, statuses, severities>>

\* fs.writeFileSync(tempFilePath, ...) throws at the write: the temporary
\* file stays truncated
TmpWriteFail(t) ==
    /\ task[t].pc = "tmpWrite" /\ CanRun(t) /\ Fails("tmpWrite")
    /\ SetTask(t, writeCaught(task[t]))
    /\ UNCHANGED <<now, shared, tmp, lock, procOf, heartbeatInterval, timers, fileWatcher, watchers, crashed, calls, broken, horizon, lifecycle, published, changeCallbacks, notified, unregistered, statuses, severities>>

\* fs.renameSync throws: the registry file and the temporary file stay
RenameFail(t) ==
    /\ task[t].pc = "rename" /\ CanRun(t) /\ Fails("rename")
    /\ SetTask(t, writeCaught(task[t]))
    /\ UNCHANGED <<now, shared, tmp, lock, procOf, heartbeatInterval, timers, fileWatcher, watchers, crashed, calls, broken, horizon, lifecycle, published, changeCallbacks, notified, unregistered, statuses, severities>>

\* fs.watch throws in startFileWatcher, which catches it: registration ends
\* with the heartbeat started and the watcher as it was
WatchFail(t) ==
    /\ task[t].pc = "afterLock" /\ CanRun(t) /\ Fails("watch")
    /\ ~task[t].err /\ task[t].op = "register"
    /\ LET p == procOf[t] IN
       /\ timers' = [timers EXCEPT ![p] = startHeartbeat(timers[p], heartbeatInterval[p])]
       /\ heartbeatInterval' = [heartbeatInterval EXCEPT ![p] = TRUE]
       /\ lifecycle' = [lifecycle EXCEPT ![p] = settled(task[t], lifecycle[p])]
    /\ SetTask(t, [task[t] EXCEPT !.pc = "done", !.out = "ok"])
    /\ UNCHANGED <<now, shared, tmp, lock, procOf, fileWatcher, watchers, crashed, calls, broken, horizon, published, changeCallbacks, notified, unregistered, statuses, severities>>

\* what made the system calls fail is gone
Repair ==
    /\ broken # {}
    /\ broken' = {}
    /\ UNCHANGED <<now, shared, tmp, lock, procOf, task, heartbeatInterval, timers, fileWatcher, watchers, crashed, calls, horizon, lifecycle, published, changeCallbacks, notified, unregistered, statuses, severities>>

\* process p, which has published its entry, dies: its callbacks and timers
\* never run again, what it left on disk stays; one process dies in a run,
\* early enough for a call to come more than the threshold after its publish
Crash(p) ==
    /\ \A q \in Procs : ~crashed[q]
    /\ published[p] # NotPublished
    /\ published[p] + staleThresholdMs < horizon
    /\ crashed' = [crashed EXCEPT ![p] = TRUE]
    /\ UNCHANGED <<now, shared, tmp, lock, procOf, task, heartbeatInterval, timers, fileWatcher, watchers, calls, broken, horizon, lifecycle, published, changeCallbacks, notified, unregistered, statuses, severities>>

\* every step but the forced takeover and the retries
Steps ==
    \/ \E p \in Procs : Register(p) \/ HeartbeatTick(p) \/ Get(p) \/ Cleanup(p)
    \/ \E t \in Tasks :
          \/ LockBegin(t) \/ LockPoll(t) \/ LockCreate(t)
          \/ OpRead(t) \/ OpWrite(t) \/ TmpWrite(t) \/ Rename(t) \/ Unlock(t)
          \/ AfterLock(t) \/ GetRead(t) \/ GetPrune(t) \/ Done(t)
    \/ Tick

\* the rounds of the retry loop of updateSharedFile and the catch blocks of
\* its callers
Retries == \E t \in Tasks : Retry(t) \/ RetryWake(t) \/ GiveUp(t)

NextFresh == Steps \/ Retries

Next == NextFresh \/ \E t \in Tasks : LockForce(t)

Spec == Init /\ [][Next]_vars

SpecFresh == InitFresh /\ [][NextFresh]_vars

SpecBadFile == InitBadFile /\ [][Steps]_vars

\* a marker was left behind by a process that is gone
InitRecovery == InitWith({AbsentFile}, {Abandoned}, MaxCalls - 1, {{}}, MaxTime)

\* what the event loops and the clock do on their own: every step but the
\* calls of the environment
Run ==
    \/ \E p \in Procs : HeartbeatTick(p)
    \/ \E t \in Tasks :
          \/ LockBegin(t) \/ LockPoll(t) \/ LockForce(t) \/ LockCreate(t)
          \/ OpRead(t) \/ OpWrite(t) \/ TmpWrite(t) \/ Rename(t) \/ Unlock(t)
          \/ AfterLock(t) \/ GetRead(t) \/ GetPrune(t) \/ Done(t)
    \/ Tick

\* a ready callback runs and a due timer fires: the event loop is fair
NextRecovery == Steps \/ \E t \in Tasks : LockForce(t)

SpecRecovery == InitRecovery /\ [][NextRecovery]_vars /\ WF_vars(Run)

\* the steps taken when system calls fail
NextFaulty ==
    \/ Next
    \/ \E t \in Tasks :
          \/ LockCreateFail(t) \/ UnlinkFail(t) \/ ReadFail(t)
          \/ TmpOpenFail(t) \/ TmpWriteFail(t) \/ RenameFail(t) \/ WatchFail(t)
    \/ Repair

SpecFaulty == InitFaulty /\ [][NextFaulty]_vars

\* every process runs a task, starts from nothing and may die once it has
\* published
InitCrash ==
    /\ InitWith({AbsentFile}, {NoLock}, MaxCalls, {{}}, MaxTime)
    /\ \A p \in Procs : \E t \in Tasks : procOf[t] = p

NextCrash == NextRecovery \/ \E p \in Procs : Crash(p)

SpecCrash == InitCrash /\ [][NextCrash]_vars

\* the creation of the marker, the write of the temporary file or the
\* rename fails for a while in a run as long as the staleness threshold
InitOutage ==
    InitWith({AbsentFile}, {NoLock}, MaxCalls,
             {{k} : k \in {"lockCreate", "tmpWrite", "rename"}}, staleThresholdMs)

NextOutage ==
    \/ NextFresh
    \/ \E t \in Tasks : LockCreateFail(t) \/ TmpWriteFail(t) \/ RenameFail(t)
    \/ Repair

SpecOutage == InitOutage /\ [][NextOutage]_vars

\* two processes find an entry with a numeric instanceId, and fs.watch fails
\* for a while
InitWatchless ==
    InitWith({Stringify(<<NumberedEntry>>)}, {NoLock}, MaxCalls, {{"watch"}}, MaxTime)

NextWatchless == NextFresh \/ (\E t \in Tasks : WatchFail(t)) \/ Repair

SpecWatchless == InitWatchless /\ [][NextWatchless]_vars

\* processes register, hand over and take back callbacks and clean up, all
\* at the start of the run, while events of the directory come in
InitNotify == InitWith({AbsentFile}, {NoLock}, MaxCalls, {{}}, 0)

NextNotify ==
    \/ \E p \in Procs : Register(p) \/ Cleanup(p)
    \/ \E t \in Tasks :
          \/ LockBegin(t) \/ LockPoll(t) \/ LockCreate(t)
          \/ OpRead(t) \/ OpWrite(t) \/ TmpWrite(t) \/ Rename(t) \/ Unlock(t)
          \/ AfterLock(t) \/ Done(t)
    \/ Tick
    \/ \E p \in Procs, c \in Callbacks : OnChange(p, c) \/ OffChange(p, c)
    \/ \E p \in Procs, f \in FileNames : WatchEvent(p, f)

SpecNotify == InitNotify /\ [][NextNotify]_vars

\* the processes start from nothing, register and clean up, all at the
\* start of the run
InitClose == InitWith({AbsentFile}, {NoLock}, MaxCalls + 1, {{}}, 0)

NextClose ==
    \/ \E p \in Procs : Register(p) \/ Cleanup(p)
    \/ \E t \in Tasks :
          \/ LockBegin(t) \/ LockPoll(t) \/ LockCreate(t)
          \/ OpRead(t) \/ OpWrite(t) \/ TmpWrite(t) \/ Rename(t) \/ Unlock(t)
          \/ AfterLock(t) \/ Done(t)
    \/ Tick

SpecClose == InitClose /\ [][NextClose]_vars

\* two statuses are graded
InitSeverity ==
    /\ InitRegistry({AbsentFile}, {NoLock}, 0, {{}}, 0)
    /\ statuses \in Statuses \X Statuses
    /\ severities = <<>>

SpecSeverity == InitSeverity /\ [][Grade]_vars

\* one process, whose writeFileSync of the marker begins to fail once the
\* run is under way, after calls that found it working
InitLate ==
    /\ InitWith({AbsentFile}, {NoLock}, MaxCalls - 1, {{}}, MaxTime)
    /\ \A t \in Tasks : procOf[t] = 1

\* the marker cannot be created any more
Outage ==
    /\ broken = {} /\ now > 0
    /\ broken' = {"lockCreate"}
    /\ UNCHANGED <<now, shared, tmp, lock, procOf, task, heartbeatInterval, timers, fileWatcher, watchers, crashed, calls, horizon, lifecycle, published, changeCallbacks, notified, unregistered, statuses, severities>>

NextLate == NextFresh \/ (\E t \in Tasks : LockCreateFail(t)) \/ Outage

SpecLate == InitLate /\ [][NextLate]_vars

(* ============================================================ properties *)
SessionsOf(es) == {es[i].sessionId : i \in 1..Len(es)}

NoDuplicateSession(es) ==
    \A i, j \in 1..Len(es) : i # j => es[i].sessionId # es[j].sessionId

\* C1: the persisted record never holds two entries with the same sessionId,
\* whatever the interleaving of registrations, heartbeats, reads and cleanups.
C1_Uniqueness == NoDuplicateSession(shared.entries)

\* both processes are in the record and one of them has republished its entry
C1_Witness ==
    /\ SessionsOf(shared.entries) = {currentSessionId(p) : p \in Procs}
    /\ \E i \in 1..Len(shared.entries) : shared.entries[i].lastUpdated >= heartbeatIntervalMs

\* task t runs one of the calls that go through withFileLock
Locking(t) == task[t].op \in {"register", "heartbeat", "cleanup"}

\* task t is inside the operation it passed to withFileLock
InLockedOp(t) ==
    Locking(t) /\ task[t].pc \in {"opRead", "opWrite", "tmpWrite", "rename"}

\* C2: without a forced takeover (SpecFresh has none), two processes are
\* never inside their locked operation at the same time.
C2_Serialized ==
    \A t, u \in Tasks :
        procOf[t] # procOf[u] => ~(InLockedOp(t) /\ InLockedOp(u))

\* C3: the registry file never holds a partially written content: it is its
\* initial content or the complete serialization of one writeSharedFile call,
\* never the zero bytes of a file that was truncated and not yet written.
C3_NoTornFile == shared \in InitFiles \/ shared.kind = "list"

\* the step of task t replaces the content of the registry file
Replaces(t) ==
    /\ task[t].pc \in {"tmpWrite", "rename"}
    /\ task'[t] # task[t]
    /\ shared' # shared

\* C4: whoever replaces the registry file is at that moment inside
\* withFileLock and holds the lock marker.
C4_WritesUnderLock ==
    [][\A t \in Tasks : Replaces(t) => InLockedOp(t) /\ lock = t]_vars

\* a getAllInstances call of task t has returned
GetReturned(t) == task[t].op = "get" /\ task[t].pc = "done"

\* now - lastUpdated < 15000, which no NaN satisfies
LiveAt(e, t) ==
    Age(t, e.lastUpdated) # NotANumber /\ Age(t, e.lastUpdated) < staleThresholdMs

\* C5: every entry getAllInstances returns is live at the time of the call:
\* now - lastUpdated < 15000, whatever the registry file holds.
C5_OnlyLiveReturned ==
    \A t \in Tasks :
        GetReturned(t) =>
            \A i \in 1..Len(task[t].insts) : LiveAt(task[t].insts[i], now)

\* C6: once a getAllInstances, an update or a cleanup that began after an
\* entry went stale has completed, the persisted record does not hold that
\* entry.
C6_StaleGoneAfterCall ==
    \A t \in Tasks :
        task[t].pc = "done" =>
            \A i \in 1..Len(shared.entries) :
                ~isStale(Age(task[t].began, shared.entries[i].lastUpdated))

\* task t is in withFileLock, before its operation
AwaitsLock(t) ==
    Locking(t) /\ task[t].pc \in {"lockBegin", "lockWait", "lockForce", "lockCreate"}

\* the time task t has spent in withFileLock is within the ceiling and a poll
WaitBounded(t) ==
    task[t].pc \in {"lockWait", "lockForce", "lockCreate"} =>
        now - task[t].startTime <= maxWaitTime + checkInterval

RegisterBegun(t) == task[t].op = "register" /\ task[t].pc = "lockBegin"

RegisterSucceeded(t) ==
    task[t].op = "register" /\ task[t].pc = "done" /\ task[t].out = "ok"

\* C7: with a marker left behind, every call of withFileLock enters its
\* operation, after a wait of at most 5000 + 50 ms, and a registration begun
\* against the marker completes successfully.
C7_LockRecovery ==
    /\ [](\A t \in Tasks : WaitBounded(t))
    /\ \A t \in Tasks : AwaitsLock(t) ~> InLockedOp(t)
    /\ \A t \in Tasks : RegisterBegun(t) ~> RegisterSucceeded(t)

\* a registration that met the marker left behind has waited the ceiling and
\* a poll, removed the marker, and its entry is in the registry file
C7_Witness ==
    \E t \in Tasks :
        /\ RegisterSucceeded(t)
        /\ now = task[t].startTime + maxWaitTime + checkInterval
        /\ task[t].began = 0
        /\ currentSessionId(procOf[t]) \in SessionsOf(shared.entries)

\* C8: when withFileLock has returned or rethrown, the marker its call wrote
\* is gone.
C8_MarkerRemoved == \A t \in Tasks : task[t].pc = "afterLock" => lock # t

\* withFileLock has returned in one task after its operation wrote the
\* registry file and has rethrown in another after its operation threw, and
\* no marker is left
C8_Witness ==
    /\ lock = NoLock
    /\ \E t \in Tasks :
          task[t].pc = "afterLock" /\ ~task[t].err /\ task[t].fd = "none"
    /\ \E t \in Tasks : task[t].pc = "afterLock" /\ task[t].err

\* C9: a registry file that is missing, empty, unparseable or no list of
\* entries reads as the empty collection, without an exception, and
\* getAllInstances returns [] from it.
C9_BadFileReadsEmpty ==
    \A t \in Tasks :
        task[t].readKind \in BadKinds =>
            /\ ~task[t].err
            /\ task[t].raw = <<>>
            /\ GetReturned(t) => task[t].insts = <<>> /\ task[t].out = "returned"

\* C10: registerCurrentInstance, getAllInstances and cleanup never let an
\* exception out, whichever system calls fail: each ends in success or in an
\* empty or unchanged result.
C10_NoExceptionEscapes ==
    \A t \in Tasks :
        task[t].pc = "done" =>
            /\ task[t].out \in {"ok", "returned", "failed"}
            /\ ~task[t].err

\* a registration gave up after its last attempt: the marker could not be
\* created in any of them
C10_Witness ==
    \E t \in Tasks :
        /\ task[t].pc = "done" /\ task[t].out = "failed"
        /\ task[t].op = "register" /\ task[t].attempt = maxRetries - 1

\* the record holds an entry of process p
Published(p) == currentSessionId(p) \in SessionsOf(shared.entries)

\* a registerCurrentInstance called after cleanup is under way in process p
LateRegister(p) ==
    \E t \in Tasks : procOf[t] = p /\ task[t].op = "register" /\ task[t].late

\* C11: once the cleanup of a process has completed (and no registration was
\* called after it), the record holds no entry of that process, also when a
\* heartbeat tick of the process was in progress at the call of cleanup.
C11_CleanedUpAbsent ==
    \A p \in Procs :
        lifecycle[p] = "CleanedUp" /\ ~LateRegister(p) => ~Published(p)

\* C12: a registerCurrentInstance called after cleanup was called in the same
\* process does not publish the entry of the process again and does not
\* start its heartbeat again: the process never gets back to Registered.
C12_NoWayBack ==
    \A t \in Tasks :
        task[t].op = "register" /\ task[t].late =>
            /\ task[t].pc \notin {"tmpWrite", "rename"}
            /\ task[t].pc = "done" =>
                  /\ lifecycle[procOf[t]] # "Registered"
                  /\ ~heartbeatInterval[procOf[t]]

\* process p is registered and its heartbeat timer is active
Heartbeating(p) ==
    ~crashed[p] /\ lifecycle[p] = "Registered" /\ heartbeatInterval[p]

\* process p published its entry and died, and the call of task t began more
\* than the threshold after the last publish of p
LongDead(p, t) ==
    /\ crashed[p]
    /\ published[p] # NotPublished
    /\ task[t].began - published[p] > staleThresholdMs

\* C13: when a registered process stopped heartbeating, every getAllInstances
\* called more than 15 s after its last publish returns no entry of it, and
\* returns the entry of every registered process that keeps heartbeating.
C13_DeadPeerEvicted ==
    \A t \in Tasks : \A b \in Procs :
        GetReturned(t) /\ LongDead(b, t) =>
            /\ currentSessionId(b) \notin SessionsOf(task[t].insts)
            /\ \A a \in Procs :
                  Heartbeating(a) => currentSessionId(a) \in SessionsOf(task[t].insts)

\* a write by task t has just replaced the registry file
Wrote(t) == task[t].pc \in {"tmpWrite", "rename"} /\ shared' # shared

\* C14: after a cleanup that could not persist the removal, the heartbeat
\* of the process is stopped, no getAllInstances called 15 s or more after
\* its last publish returns its entry, and the update or the read of a peer
\* that writes the record then writes it without the entry.
C14_FailedCleanupHeals ==
    [][\A p \in Procs :
          lifecycle[p] = "CleanupFailed" /\ Published(p) /\ ~LateRegister(p) =>
              /\ ~heartbeatInterval[p] /\ timers[p] = <<>>
              /\ \A t \in Tasks :
                    /\ GetReturned(t)
                       /\ task[t].began - published[p] >= staleThresholdMs
                       => currentSessionId(p) \notin SessionsOf(task[t].insts)
                    /\ procOf[t] # p /\ task[t].op # "cleanup" /\ Wrote(t)
                       /\ now - published'[p] >= staleThresholdMs
                       => currentSessionId(p) \notin SessionsOf(shared'.entries)]_vars
\* the entries of session sid in a list
EntriesOf(es, sid) == SelectSeq(es, LAMBDA e : e.sessionId = sid)

\* task t runs a registerCurrentInstance that found an entry of its own
\* session in the record: the process had registered before
Reregisters(t) ==
    /\ task[t].op = "register"
    /\ currentSessionId(procOf[t]) \in SessionsOf(task[t].raw)

\* the renameSync of task t puts the file that t wrote in place
RenamesOwn(t) ==
    /\ task[t].pc = "rename" /\ task'[t].pc # "rename"
    /\ tmp = Stringify(task[t].insts)
    /\ shared' = tmp

\* C15: when registerCurrentInstance is called again in a process whose
\* entry is in the record, its write leaves exactly one entry of that
\* sessionId in the record, and it is the snapshot of the second call.
C15_RegisterIdempotent ==
    [][\A t \in Tasks :
          Reregisters(t) /\ RenamesOwn(t) =>
              EntriesOf(shared'.entries, currentSessionId(procOf[t]))
                  = <<getCurrentInstanceData(procOf[t], task[t].began)>>]_vars

\* the second registration of a process, called one period after the first,
\* has written the record and has replaced the entry of the first
C15_Witness ==
    \E t \in Tasks :
        /\ Reregisters(t) /\ task[t].pc = "unlock" /\ ~task[t].err
        /\ task[t].began = heartbeatIntervalMs
        /\ EntriesOf(task[t].raw, currentSessionId(procOf[t]))
              = <<getCurrentInstanceData(procOf[t], 0)>>
        /\ EntriesOf(shared.entries, currentSessionId(procOf[t]))
              = <<getCurrentInstanceData(procOf[t], heartbeatIntervalMs)>>

\* the list task t hands to writeSharedFile
Writing(t) == task[t].pc \in {"tmpWrite", "rename"}

UpdateOps == {"register", "heartbeat"}

\* C17: when writeSharedFile fails inside the locked operation of an update,
\* the attempt ends with an error, so that updateSharedFile runs the
\* sequence again.
C17_WriteFailureRetried ==
    \A t \in Tasks :
        /\ task[t].op \in UpdateOps
        /\ task[t].pc = "afterLock"
        /\ task[t].wrote = "failed"
        => task[t].err

\* task t leaves the catch block of updateSharedFile in this step
LeavesCatch(t) ==
    /\ task[t].op \in UpdateOps
    /\ task[t].pc = "afterLock" /\ task[t].err
    /\ task'[t].pc # "afterLock"

\* C18: an update whose attempt failed sleeps 100 * k ms after its k-th
\* failure for k = 1..4 and then tries again, not before the sleep is over;
\* after the fifth failure it ends with the error raised to its caller.
C18_RetryBounded ==
    [][\A t \in Tasks :
          /\ LeavesCatch(t) =>
                IF task[t].attempt + 1 < maxRetries
                THEN /\ task'[t].pc = "retrySleep"
                     /\ task'[t].attempt = task[t].attempt + 1
                     /\ task'[t].wake = now + retryDelay * task'[t].attempt
                ELSE /\ task'[t].pc = "done"
                     /\ task'[t].out = "failed"
          /\ task[t].pc = "retrySleep" /\ task'[t].pc # "retrySleep" =>
                /\ now >= task[t].wake
                /\ task'[t].attempt = task[t].attempt
                /\ task[t].attempt < maxRetries]_vars

\* a registration failed five times and gave up 100 + 200 + 300 + 400 ms
\* after it was called
C18_Witness ==
    \E t \in Tasks :
        /\ task[t].op = "register" /\ task[t].pc = "done"
        /\ task[t].out = "failed"
        /\ task[t].attempt + 1 = maxRetries
        /\ now = task[t].began + retryDelay * (1 + 2 + 3 + 4)
\* C19: a writeSharedFile that failed at the write of the temporary file or
\* at the rename has put nothing in the registry file that was not there
\* before the call.
C19_FailedWriteKeepsRecord ==
    \A t \in Tasks : task[t].wrote = "failed" => ~task[t].changed
\* the heartbeat tick of task t ends in its catch block in this step
TickFails(t) ==
    /\ task[t].op = "heartbeat"
    /\ task[t].pc = "afterLock" /\ task[t].err
    /\ task'[t].pc = "done"

\* a heartbeat tick of process p has just failed
TickFailed(p) ==
    \E t \in Tasks :
        /\ procOf[t] = p /\ task[t].op = "heartbeat"
        /\ task[t].pc = "done" /\ task[t].out = "failed"

\* C20: a heartbeat tick that fails leaves the timer as it is and, when no
\* watcher is held and fs.watch works, starts one; while the process is
\* registered, its timer is active after a failed tick.
C20_FailedTickKeepsTimer ==
    [][\A t \in Tasks :
          /\ TickFails(t) =>
                /\ timers'[procOf[t]] = timers[procOf[t]]
                /\ heartbeatInterval'[procOf[t]] = heartbeatInterval[procOf[t]]
                /\ ~fileWatcher[procOf[t]] /\ Works("watch") =>
                      /\ fileWatcher'[procOf[t]]
                      /\ watchers'[procOf[t]] = watchers[procOf[t]] + 1
          /\ TickFailed(procOf[t]) /\ lifecycle[procOf[t]] = "Registered" =>
                /\ heartbeatInterval[procOf[t]]
                /\ timers[procOf[t]] # <<>>]_vars

\* the first tick of a registered process without a watcher has failed
\* after five attempts: the timer is set for the next period and the tick
\* has started the watcher
C20_Witness ==
    \E t \in Tasks :
        /\ task[t].op = "heartbeat" /\ task[t].pc = "done"
        /\ task[t].out = "failed" /\ task[t].rewatched
        /\ task[t].began = heartbeatIntervalMs
        /\ lifecycle[procOf[t]] = "Registered"
        /\ fileWatcher[procOf[t]] /\ watchers[procOf[t]] = 1
        /\ heartbeatInterval[procOf[t]]
        /\ timers[procOf[t]] = <<task[t].began + heartbeatIntervalMs>>

\* the entries are in ascending order of instanceId
SortedByInstanceId(es) ==
    \A i \in 1..(Len(es) - 1) : es[i].instanceId <= es[i + 1].instanceId

RankOf(sid) ==
    IF \E p \in Procs : currentSessionId(p) = sid
    THEN currentInstanceId(CHOOSE p \in Procs : currentSessionId(p) = sid)
    ELSE generateDeterministicGUID(sid)

\* the sessions of the list come in the order of their ranks
InRankOrder(es) ==
    \A i, j \in 1..Len(es) :
        i < j => RankOf(es[i].sessionId) < RankOf(es[j].sessionId)

GetSteps(t) == task[t].op = "get" /\ task[t].pc # task'[t].pc

\* getAllInstances found no stale entry in the record it read
NothingStale(t) ==
    /\ task[t].pc = "getPrune"
    /\ ~shrank(removeStaleInstances(task[t].insts, now), task[t].insts)

\* getAllInstances returns from the writeSharedFile it called with the live
\* entries
PruneWritten(t) == Writing(t) /\ task'[t].pc = "done"

\* C23: getAllInstances leaves the lock marker alone; when no entry of the
\* record it read is stale it leaves the registry file unchanged, and when
\* an entry is stale the registry file reads as exactly the live entries of
\* the record read once its write has completed.
C23_PrunePersistsLive ==
    [][\A t \in Tasks :
          GetSteps(t) =>
              /\ lock' = lock
              /\ NothingStale(t) => shared' = shared
              /\ PruneWritten(t) => parseSharedFile(shared') = Returned(task[t].insts)]_vars

\* the callbacks in a sequence of them
CallbacksIn(cbs) == {cbs[i] : i \in 1..Len(cbs)}

\* C24: when a listener runs for an event that names the registry file, each
\* callback registered at that moment is called, whether or not one called
\* before it threw; for an event that names another file none is called;
\* and no callback is called that is not registered any more.
C24_CallbacksNotified ==
    [][notified' # notified =>
          LET registered == CallbacksIn(changeCallbacks[notified'.proc])
              called == CallbacksIn(notified'.called)
          IN  /\ notified'.filename = sharedFileName => registered \subseteq called
              /\ notified'.filename # sharedFileName => called = {}
              /\ called \cap unregistered[notified'.proc] = {}]_vars

\* a listener has called a callback that threw and then the next one
C24_Witness ==
    /\ notified.filename = sharedFileName
    /\ Len(notified.called) = 2
    /\ throws(notified.called[1])

\* every process that registered has completed its cleanup after its
\* registration, so that its heartbeat is stopped, and no call is in progress
AllClosed ==
    /\ \A p \in Procs : lifecycle[p] \in {"Unregistered", "CleanedUp"}
    /\ \A p \in Procs : ~heartbeatInterval[p] /\ timers[p] = <<>>
    /\ \E p \in Procs : lifecycle[p] = "CleanedUp"
    /\ \A t \in Tasks : task[t].pc = "idle"

\* C25: once every registered process has completed cleanup, whatever the
\* order and the overlap of the cleanups, the record holds no entry.
C25_ClearedWhenAllClosed == AllClosed => readSharedFile(shared).list = <<>>

\* the groups of statuses, from the worst to the harmless
SeverityGroups ==
    << {"Failed", "Error"},
       {"Unauthorized", "SigninRequired", "RateLimited", "Waiting for Approval"},
       {"Initializing"},
       {"Generating"},
       {"Disabled"},
       {"Done", "Idle", "Running"} >>

\* C26: severity gives every status of a group a greater number than every
\* status of the next group of the chain Failed, Error > Unauthorized,
\* SigninRequired, RateLimited, Waiting for Approval > Initializing >
\* Generating > Disabled > Done, Idle, Running, and gives 0 to Unknown and to
\* a status that is not listed.
C26_SeverityOrdered ==
    severities # <<>> =>
        /\ \A g \in 1..(Len(SeverityGroups) - 1) :
               statuses[1] \in SeverityGroups[g] /\ statuses[2] \in SeverityGroups[g + 1]
                   => severities[1] > severities[2]
        /\ \A i \in 1..Len(statuses) :
               statuses[i] \notin UNION {SeverityGroups[g] : g \in 1..Len(SeverityGroups)}
                   => severities[i] = 0

\* a status of one group and a status of the next have been graded
C26_Witness ==
    /\ severities # <<>>
    /\ statuses = <<"Waiting for Approval", "Initializing">>

\* task t, waiting in withFileLock, removes the marker it found
ForcesOut(t) ==
    task[t].pc = "lockForce" /\ lock # NoLock /\ lock' = NoLock

\* how long the marker has been there: a marker left by a process that is
\* gone was there when the run began, another one since its creation
MarkerAge(l) == IF l = Abandoned THEN now ELSE now - task[l].lockedAt

\* C27: a waiter in withFileLock removes a marker by force only when that
\* marker has been present for more than the 5 s ceiling, never the marker
\* that a live holder created more recently.
C27_TakeoverOnlyAbandoned ==
    [][\A t \in Tasks : ForcesOut(t) => MarkerAge(lock) > maxWaitTime]_vars

\* the record holds an entry of process p that is still live
LiveInRecord(p) ==
    /\ published[p] # NotPublished
    /\ \E i \in 1..Len(shared.entries) :
           /\ shared.entries[i].sessionId = currentSessionId(p)
           /\ LiveAt(shared.entries[i], now)

\* the step of task t puts a content without an entry of process p in the
\* place of a record that held a live one
Evicts(t, p) ==
    /\ task[t].pc \in {"tmpWrite", "rename"} /\ task'[t].pc # task[t].pc
    /\ LiveInRecord(p)
    /\ currentSessionId(p) \notin SessionsOf(shared'.entries)

\* C28: once the update of a process has been persisted, no write of a
\* different process (heartbeat, prune of getAllInstances, cleanup) takes
\* the entry of that process out of the record while the entry is live.
C28_NoLostRegistration ==
    [][\A t \in Tasks : \A p \in Procs : procOf[t] # p => ~Evicts(t, p)]_vars

\* the entry of session sid in list es is at least as recent as in list was
NotOlder(was, es, sid) ==
    \A i \in 1..Len(was) : \A j \in 1..Len(es) :
        /\ was[i].sessionId = sid /\ es[j].sessionId = sid
        /\ was[i].lastUpdated \in Nat
        => /\ es[j].lastUpdated \in Nat
           /\ es[j].lastUpdated >= was[i].lastUpdated

\* C29: from one content of the registry file to the next, the lastUpdated
\* of the entry of a session never decreases while the entry stays in the
\* record: no write puts an older publication of an entry in its place.
C29_LastUpdatedMonotone ==
    [][\A p \in Procs :
          NotOlder(shared.entries, shared'.entries, currentSessionId(p))]_vars

\* the finally block of task t removes the marker that is at the lock path
Releases(t) ==
    /\ task[t].pc \in {"unlock", "lockCreate"} /\ task'[t].pc = "afterLock"
    /\ lock # NoLock /\ lock' = NoLock

\* C30: the release step of withFileLock removes only the marker that the
\* same call created, never the marker that another process wrote, so that
\* no process unlocks a section that another process is executing.
C30_ReleasesOwnMarker ==
    [][\A t \in Tasks : Releases(t) => lock = t]_vars

\* cleanup() has returned in process p and registerCurrentInstance has not
\* been called in p since cleanup was called
CleanupReturned(p) ==
    lifecycle[p] \in {"CleanedUp", "CleanupFailed"} /\ ~LateRegister(p)

\* process p has no timer of setInterval and no open watcher of fs.watch
Quiet(p) ==
    ~heartbeatInterval'[p] /\ timers'[p] = <<>> /\ watchers'[p] = 0

\* C31: once cleanup() has returned, and until registerCurrentInstance is
\* called again, the process has no active heartbeat timer and no active
\* watcher, also when a call that began before cleanup ends afterwards.
C31_QuietAfterCleanup ==
    [][\A p \in Procs : CleanupReturned(p) => Quiet(p)]_vars

\* how many times callback c is in a sequence of calls
TimesCalled(called, c) == Cardinality({i \in 1..Len(called) : called[i] = c})

\* C32: however many times registerCurrentInstance was called in a process,
\* the process has at most one open watcher, and one event of the registry
\* file calls no callback more than once.
C32_OneWatcher ==
    /\ \A p \in Procs : watchers[p] <= 1
    /\ \A c \in Callbacks : TimesCalled(notified.called, c) <= 1

\* C33: however many times registerCurrentInstance was called in a process,
\* the process has at most one active heartbeat timer: startHeartbeat clears
\* the interval it holds before it sets the next.
C33_OneHeartbeat == \A p \in Procs : Len(timers[p]) <= 1

\* a registration called in a process that had registered before has
\* completed, and the only timer of the process is the one it set
C33_Witness ==
    \E t \in Tasks :
        /\ task[t].op = "register" /\ task[t].pc = "done" /\ task[t].out = "ok"
        /\ Reregisters(t) /\ task[t].began > 0
        /\ heartbeatInterval[procOf[t]]
        /\ timers[procOf[t]] = <<task[t].began + heartbeatIntervalMs>>

\* task t runs a cleanup called in a process where cleanup had been called
\* before, and takes this step
SecondCleanupStep(t) ==
    /\ task'[t].op = "cleanup" /\ task'[t].late
    /\ task'[t].pc # task[t].pc

\* C34: a second cleanup() in the same process, after the first or while it
\* is under way, changes nothing: on each of its steps the timers and the
\* watchers of the process stay as they are and the entries of the other
\* sessions in the record are neither removed nor changed, and the entry of
\* its own session does not come back.
C34_CleanupIdempotent ==
    [][\A t \in Tasks :
          SecondCleanupStep(t) =>
              LET p == procOf[t] IN
              /\ timers'[p] = timers[p] /\ watchers'[p] = watchers[p]
              /\ WithoutSession(shared'.entries, currentSessionId(p))
                    = WithoutSession(shared.entries, currentSessionId(p))
              /\ ~Published(p) => currentSessionId(p) \notin SessionsOf(shared'.entries)]_vars

\* the registerCurrentInstance of task t has ended in its catch block
FailedRegister(t) ==
    task[t].op = "register" /\ task[t].pc = "done" /\ task[t].out = "failed"

\* a step of the registerCurrentInstance of task t changes the timers or the
\* watchers of its process
StartsHeartbeat(t) ==
    /\ task[t].op = "register" /\ task'[t].pc # task[t].pc
    /\ \/ timers'[procOf[t]] # timers[procOf[t]]
       \/ watchers'[procOf[t]] # watchers[procOf[t]]

\* C35: registerCurrentInstance starts the heartbeat and the watcher only
\* when its updateSharedFile has returned without error; a call whose five
\* attempts failed has written nothing to the registry file and, in a
\* process that never registered, leaves no timer and no watcher.
C35_FailedRegisterStartsNothing ==
    [][\A t \in Tasks :
          /\ StartsHeartbeat(t) =>
                 /\ task[t].pc = "afterLock" /\ ~task[t].err
                 /\ task[t].wrote # "none"
          /\ FailedRegister(t)' =>
                 /\ task'[t].attempt = maxRetries - 1
                 /\ task'[t].wrote = "none" /\ ~task'[t].changed
                 /\ lifecycle'[procOf[t]] = "Unregistered" =>
                        /\ ~heartbeatInterval'[procOf[t]]
                        /\ timers'[procOf[t]] = <<>>
                        /\ watchers'[procOf[t]] = 0]_vars

\* a registration has given up after its fifth attempt in a process that
\* never registered, while the marker cannot be created
C35_Witness ==
    \E t \in Tasks :
        /\ FailedRegister(t) /\ task[t].attempt = maxRetries - 1
        /\ lifecycle[procOf[t]] = "Unregistered"
        /\ Fails("lockCreate")
        /\ now >= task[t].began + retryDelay * 10
====
